---------------------------- MODULE Spec2Model ----------------------------
(***************************************************************************)
(* A model of the chunked FileStream reader of src/FileStream.js.          *)
(*                                                                         *)
(* The state is the fields of one stream object.  Every operation is the   *)
(* body of the method of GenericRead / TextRead / FileStream of that name, *)
(* run with `this` bound to the stream object, under JavaScript's          *)
(* semantics: a field that is never assigned reads as undefined,           *)
(* arithmetic on undefined gives NaN, every comparison with NaN is false,  *)
(* a property read on null or undefined throws a TypeError, and a thrown   *)
(* error leaves the assignments made before it in place.                   *)
(* src/unnamed/part_000 is an earlier copy of the same class whose open,   *)
(* readChunk, seek, tell and EOF bodies are the ones modelled here.        *)
(***************************************************************************)
EXTENDS Integers, Sequences, FiniteSets, TLC

\* ------------------------------------------------------------------ bounds
MaxLen == 4          \* longest enumerated source, in bytes
MaxChunk == 3        \* largest config.chunkSize
MaxArg == 2          \* largest amount / len / buffer offset argument
BufCap == 3          \* capacity of the target array of a ranged fill
MaxSteps == 12       \* single-byte reads after which a loop counts as running on

\* -------------------------------------------------------- program constants
LF == 10             \* 0x0A, the line terminator of readLine

\* ------------------------------------------------------ JavaScript values
\* A value is a record [tag, num, str]; only the field its tag names matters.
Num(n)    == [tag |-> "number",    num |-> n, str |-> <<>>]
NaN       == [tag |-> "NaN",       num |-> 0, str |-> <<>>]
Undefined == [tag |-> "undefined", num |-> 0, str |-> <<>>]
Null      == [tag |-> "null",      num |-> 0, str |-> <<>>]
Str(s)    == [tag |-> "string",    num |-> 0, str |-> s]

IsNum(v) == v.tag = "number"

\* ToNumber: undefined -> NaN, null -> 0.
ToNumber(v) ==
    CASE v.tag = "number" -> v
      [] v.tag = "null"   -> Num(0)
      [] OTHER            -> NaN

\* a + b and a * b on numbers (NaN is contagious).
Add(a, b) == IF IsNum(ToNumber(a)) /\ IsNum(ToNumber(b))
             THEN Num(ToNumber(a).num + ToNumber(b).num) ELSE NaN
Mul(a, b) == IF IsNum(ToNumber(a)) /\ IsNum(ToNumber(b))
             THEN Num(ToNumber(a).num * ToNumber(b).num) ELSE NaN

\* a > b: false as soon as one side is NaN.
Gt(a, b) == /\ IsNum(ToNumber(a)) /\ IsNum(ToNumber(b))
            /\ ToNumber(a).num > ToNumber(b).num

\* a === b (NaN is not equal to itself).
StrictEq(a, b) == /\ a.tag = b.tag
                  /\ a.tag # "NaN"
                  /\ (a.tag = "number" => a.num = b.num)
                  /\ (a.tag = "string" => a.str = b.str)

\* Math.ceil(a / b) for integers a >= 0, b >= 1.
Ceil(a, b) == (a + b - 1) \div b

Min(a, b) == IF a < b THEN a ELSE b

\* A Blob value: the bytes of the source from offset `start` on.
BlobVal(start, bytes) == [tag |-> "Blob", num |-> start, str |-> bytes]

\* What a call did: it returned a value or threw an error; warn tells whether
\* it wrote a console warning on the way.
Return(v)     == [kind |-> "return", val |-> v,         err |-> "", warn |-> FALSE]
ReturnWarn(v) == [kind |-> "return", val |-> v,         err |-> "", warn |-> TRUE]
Throw(e)      == [kind |-> "throw",  val |-> Undefined, err |-> e,  warn |-> FALSE]
\* The call has neither returned nor thrown after MaxSteps single-byte reads.
Running       == [kind |-> "running", val |-> Undefined, err |-> "", warn |-> FALSE]

TypeError      == "TypeError"
ReferenceError == "ReferenceError"
InvalidOffset  == "Error: Attempted to seek to an invalid offset."
ChunkBeyond    == "Error: Attempted to access a chunk beyond the bounds of the blob"

\* --------------------------------------------------------------- the state
VARIABLES
    file,          \* the Blob the caller passes to open (its bytes)
    config,        \* this.config after the constructor merged the defaults
    blob,          \* this.blob
    lastChunk,     \* this.lastChunk
    chunks,        \* this.chunks, the chunk table
    chunk,         \* this.chunk, the index of the current chunk
    position,      \* this.position, the position inside the cache
    cache,         \* this.cache
    closed,        \* this.closed
    currentLine,   \* this.currentLine
    loads,         \* the FileReader loads started and not yet completed
    call           \* the last call: its name, arguments, outcome, prior state

vars == <<file, config, blob, lastChunk, chunks, chunk, position, cache,
          closed, currentLine, loads, call>>

\* The stream object, as a record of its fields.
This == [blob |-> blob, lastChunk |-> lastChunk, chunks |-> chunks,
         chunk |-> chunk, position |-> position, cache |-> cache,
         closed |-> closed, currentLine |-> currentLine, loads |-> loads]

\* An operation's outcome: the stream after it and what the call did.
Outcome(s, r) == [this |-> s, res |-> r]

\* --------------------------------------------------- fields never assigned
\* tell() reads this.offset and this.chunkSize.  No statement of the source
\* assigns either (the cursor is this.position, the chunk size is
\* this.config.chunkSize), so both read as undefined.
offset    == Undefined
chunkSize == Undefined

\* ------------------------------------------------------------- FileStream
\* tell(): this.offset + (this.chunkSize * this.chunk)
tell(s) == Add(offset, Mul(chunkSize, s.chunk))

\* get EOF: this.tell() > this.blob.size   (for a stream that has a blob)
EOF(s) == Gt(tell(s), Num(Len(s.blob.bytes)))

\* this.blob.size throws when this.blob is undefined (no open yet).
NoBlob(s) == s.blob.tag = "undefined"

\* arr[i] of the chunk table: undefined outside 0 .. length-1 and for an
\* index that is not a number.
Index(arr, i) ==
    IF IsNum(i) /\ i.num >= 0 /\ i.num < Len(arr.items)
    THEN arr.items[i.num + 1] ELSE Undefined

\* cache[i] of the Uint8Array.
CacheAt(s, i) ==
    IF i >= 0 /\ i < Len(s.cache.bytes)
    THEN Num(s.cache.bytes[i + 1]) ELSE Undefined

\* get currentByte: this.cache[this.position]; throws on a null cache.
currentByte(s) ==
    IF s.cache.tag # "array" THEN Throw(TypeError)
    ELSE Return(CacheAt(s, s.position.num))

\* ------------------------------------------------------------ GenericRead
\* sliceChunk(index): the Blob of the bytes [index*C, min(index*C + C, L));
\* this.blob.slice throws when this.blob is undefined.
sliceChunk(s, index) ==
    IF Gt(index, s.lastChunk) THEN Throw(ChunkBeyond)
    ELSE IF NoBlob(s) THEN Throw(TypeError)
    ELSE LET L  == Len(s.blob.bytes)
             lo == Min(index.num * config.chunkSize, L)
             hi == Min(config.chunkSize + index.num * config.chunkSize, L)
         IN  Return(BlobVal(lo, SubSeq(s.blob.bytes, lo + 1, hi)))

\* new Array(lastChunk).fill(0), then chunks.map(...) whose result is dropped:
\* map returns a new array and leaves this.chunks holding the zeros.
NewChunkTable(s) ==
    LET mapped == [i \in 1 .. s.lastChunk.num |-> sliceChunk(s, Num(i - 1)).val]
    IN  [tag |-> "array", items |-> [i \in 1 .. s.lastChunk.num |-> Num(0)]]

\* A FileReader that starts a load whatever it is given.
readAsArrayBufferAny(s, v) ==
    Outcome([s EXCEPT !.loads = Append(@, v.str)], Return(Undefined))

\* reader.readAsArrayBuffer(v): starts a load of a Blob; a TypeError for
\* anything else.  The onload callback of a started load is the one
\* statement that assigns a byte array to this.cache.  As every entry of
\* this.chunks is the number 0 (NewChunkTable), and this.chunks[lastChunk] is
\* undefined, no call of the source starts a load and no callback is ever
\* queued: NoLoadEverStarts below.
readAsArrayBuffer(s, v) ==
    IF v.tag = "Blob"
    THEN Outcome([s EXCEPT !.loads = Append(@, v.str)], Return(Undefined))
    ELSE Outcome(s, Throw(TypeError))

\* readChunk(index)
readChunk(s, index) ==
    IF Gt(index, s.lastChunk) THEN Outcome(s, Throw(ChunkBeyond))
    ELSE LET s1 == [s EXCEPT !.chunk = index, !.position = Num(0)]
         IN  IF s1.chunks.tag # "array" THEN Outcome(s1, Throw(TypeError))
             ELSE readAsArrayBuffer(s1, Index(s1.chunks, s1.chunk))

\* open(blob)
open(s, b) ==
    LET s1 == [s EXCEPT !.cache = [tag |-> "null", bytes |-> <<>>],
                        !.blob = [tag |-> "blob", bytes |-> b],
                        !.lastChunk = Num(Ceil(Len(b), config.chunkSize))]
        s2 == [s1 EXCEPT !.chunks = NewChunkTable(s1)]
        rc == readChunk(s2, Num(0))
    IN  IF rc.res.kind = "throw" THEN rc
        ELSE Outcome([rc.this EXCEPT !.closed = FALSE], Return(Undefined))

\* newChunkIndex(offset) of seek
newChunkIndex(s, o) ==
    IF o > Len(s.blob.bytes) THEN Throw(ChunkBeyond)
    ELSE Return(Num(Ceil(o, config.chunkSize)))

\* seek with the cursor moved before the offset is validated.
seekMovesFirst(s, o) ==
    IF NoBlob(s) THEN Outcome(s, Throw(TypeError))
    ELSE LET s1 == [s EXCEPT !.position = Num(o % config.chunkSize)]
         IN  IF o > Len(s.blob.bytes) \/ o < 0 THEN Outcome(s1, Throw(InvalidOffset))
             ELSE LET c  == newChunkIndex(s, o).val
                      rc == IF ~StrictEq(c, s.chunk) THEN readChunk(s, c)
                            ELSE Outcome(s, Return(Undefined))
                  IN  IF rc.res.kind = "throw" THEN rc
                      ELSE Outcome([rc.this EXCEPT
                                       !.position = Num(o % config.chunkSize)],
                                   Return(Undefined))

\* seek(offset)
seek(s, o) ==
    IF NoBlob(s) THEN Outcome(s, Throw(TypeError))
    ELSE IF o > Len(s.blob.bytes) \/ o < 0 THEN Outcome(s, Throw(InvalidOffset))
    ELSE LET c  == newChunkIndex(s, o).val
             rc == IF ~StrictEq(c, s.chunk) THEN readChunk(s, c)
                   ELSE Outcome(s, Return(Undefined))
         IN  IF rc.res.kind = "throw" THEN rc
             ELSE Outcome([rc.this EXCEPT !.position = Num(o % config.chunkSize)],
                          Return(Undefined))

\* seekLocal(offset)
seekLocal(s, o) ==
    IF o > config.chunkSize \/ o < 0 THEN Outcome(s, Throw(InvalidOffset))
    ELSE LET s1 == [s EXCEPT !.position = Num(o)]
         IN  Outcome(s1, Return(tell(s1)))

\* r() reading through a null cache (this.cache?.[this.position++]).
rReadsNullCache(s) ==
    IF NoBlob(s) THEN Outcome(s, Throw(TypeError))
    ELSE IF EOF(s) THEN Outcome(s, Return(Null))
    ELSE Outcome([s EXCEPT !.position = Num(@.num + 1)],
                 Return(CacheAt(s, s.position.num)))

\* r(): the single-byte read
r(s) ==
    IF NoBlob(s) THEN Outcome(s, Throw(TypeError))
    ELSE IF EOF(s) THEN Outcome(s, Return(Null))
    ELSE IF s.cache.tag # "array" THEN Outcome(s, Throw(TypeError))
    ELSE LET rc == IF s.position.num = Len(s.cache.bytes)
                   THEN readChunk(s, Index(s.chunks, Add(s.chunk, Num(1))))
                   ELSE Outcome(s, Return(Undefined))
         IN  IF rc.res.kind = "throw" THEN rc
             ELSE Outcome([rc.this EXCEPT !.position = Num(@.num + 1)],
                          Return(CacheAt(rc.this, rc.this.position.num)))

\* skip(amount): the loop from iteration i on.
RECURSIVE skipFrom(_, _, _)
skipFrom(s, i, amount) ==
    IF ~(i < amount) THEN Outcome(s, Return(Num(amount)))
    ELSE LET rr == r(s)
         IN  IF rr.res.kind = "throw" THEN rr
             ELSE IF EOF(rr.this) THEN Outcome(rr.this, Return(Num(i)))
             ELSE skipFrom(rr.this, i + 1, amount)

skip(s, amount) == skipFrom(s, 0, amount)

\* read(array, offset, len): the first statement after the destructuring is
\* isArray(array).  No isArray is defined in the source (the built-in is
\* Array.isArray), so evaluating the call throws a ReferenceError and the
\* fill loop is never entered; the target array is returned untouched.
read3(s, array, off, len) ==
    [this |-> s, res |-> Throw(ReferenceError), array |-> array]

\* read(array): like the 3-argument case, the first statement is
\* isArray(array), which throws a ReferenceError before the fill loop.
read1(s, array) ==
    [this |-> s, res |-> Throw(ReferenceError), array |-> array]

\* String.fromCharCode(v): the code unit ToUint16(v).
fromCharCode(v) == IF IsNum(v) THEN v.num % 65536 ELSE 0

\* readLine(): the loop with the accumulator acc, then ++this.currentLine.
\* Every iteration that goes on appends one character, so Len(acc) + 1 is
\* the number of r() calls made when the loop ends; reads reports it.
RECURSIVE readLineFrom(_, _)
readLineFrom(s, acc) ==
    LET rr   == r(s)
        byte == rr.res.val
        n    == Len(acc) + 1
    IN  IF Len(acc) >= MaxSteps
        THEN [this |-> s, res |-> Running, reads |-> Len(acc)]
        ELSE IF rr.res.kind = "throw"
        THEN [this |-> rr.this, res |-> rr.res, reads |-> n]
        ELSE IF StrictEq(byte, Num(LF)) \/ StrictEq(byte, Null)
        THEN [this |-> [rr.this EXCEPT !.currentLine = Add(@, Num(1))],
              res |-> Return(Str(acc)), reads |-> n]
        ELSE readLineFrom(rr.this, Append(acc, fromCharCode(byte)))

readLine(s) == readLineFrom(s, <<>>)

\* s.join("\n")
RECURSIVE join(_)
join(lines) ==
    IF lines = <<>> THEN <<>>
    ELSE IF Len(lines) = 1 THEN lines[1]
    ELSE lines[1] \o <<LF>> \o join(Tail(lines))

\* str.charCodeAt(str.length - 1) !== 0x0A  (NaN for the empty string)
LastIsNotLF(str) == Len(str) = 0 \/ str[Len(str)] # LF

\* readLines(amount): the loop from iteration i on, with the lines read.
RECURSIVE readLinesFrom(_, _, _, _)
readLinesFrom(s, i, amount, lines) ==
    IF ~(i < amount) THEN Outcome(s, Return(Str(join(lines))))
    ELSE LET rl  == readLine(s)
             got == Append(lines, rl.res.val.str)
         IN  IF rl.res.kind # "return" THEN Outcome(rl.this, rl.res)
             ELSE IF LastIsNotLF(rl.res.val.str)
             THEN Outcome(rl.this, IF i + 1 # amount
                                   THEN ReturnWarn(Str(join(got)))
                                   ELSE Return(Str(join(got))))
             ELSE readLinesFrom(rl.this, i + 1, amount, got)

readLines(s, amount) == readLinesFrom(s, 0, amount, <<>>)

\* ------------------------------------------------------------ the sources
Bytes == {LF, 97}

RECURSIVE SeqsUpTo(_)
SeqsUpTo(n) ==
    IF n = 0 THEN {<<>>}
    ELSE LET shorter == SeqsUpTo(n - 1)
         IN  shorter \cup {Append(q, b) : q \in {x \in shorter : Len(x) = n - 1},
                                          b \in Bytes}

\* "abc\ndef\n"
AbcDef == <<97, 98, 99, 10, 100, 101, 102, 10>>

Files == SeqsUpTo(MaxLen) \cup {AbcDef}

\* new Array(BufCap): the target of a ranged fill, all holes.
EmptyArray == [i \in 1 .. BufCap |-> Undefined]

NoCall == [op |-> "new", a1 |-> 0, a2 |-> 0, res |-> Return(Undefined),
           array |-> <<>>, reads |-> -1]

\* The stream after the constructor: position = 0, chunk = 0, closed = true,
\* every other field unset.
Init ==
    /\ file \in Files
    /\ config \in [chunkSize : 1 .. MaxChunk]
    /\ blob = [tag |-> "undefined", bytes |-> <<>>]
    /\ lastChunk = Undefined
    /\ chunks = [tag |-> "undefined", items |-> <<>>]
    /\ chunk = Num(0)
    /\ position = Num(0)
    /\ cache = [tag |-> "undefined", bytes |-> <<>>]
    /\ closed = TRUE
    /\ currentLine = Undefined
    /\ loads = <<>>
    /\ call = NoCall @@ [pre |-> This]

\* The stream becomes out.this and the call is recorded.  reads counts the
\* read() calls made since open with no other call in between (-1 once
\* another call came in between).
Apply(out, op, a1, a2, array, reads) ==
    /\ blob' = out.this.blob
    /\ lastChunk' = out.this.lastChunk
    /\ chunks' = out.this.chunks
    /\ chunk' = out.this.chunk
    /\ position' = out.this.position
    /\ cache' = out.this.cache
    /\ closed' = out.this.closed
    /\ currentLine' = out.this.currentLine
    /\ loads' = out.this.loads
    /\ call' = [op |-> op, a1 |-> a1, a2 |-> a2, res |-> out.res,
                array |-> array, reads |-> reads, pre |-> This]
    /\ UNCHANGED <<file, config>>

Open == Apply(open(This, file), "open", 0, 0, <<>>, 0)

Seek == \E o \in -1 .. MaxLen + 1 :
            Apply(seek(This, o), "seek", o, 0, <<>>, -1)

SeekLocal == \E o \in -1 .. MaxChunk + 1 :
                 Apply(seekLocal(This, o), "seekLocal", o, 0, <<>>, -1)

Tell == Apply(Outcome(This, Return(tell(This))), "tell", 0, 0, <<>>, -1)

Read == /\ call.reads <= MaxLen
        /\ Apply(r(This), "read", 0, 0, <<>>,
                 IF call.reads < 0 THEN -1 ELSE call.reads + 1)

ReadRange == \E off \in 0 .. MaxArg, len \in 0 .. MaxArg :
                 LET out == read3(This, EmptyArray, off, len)
                 IN  Apply(out, "read3", off, len, out.array, -1)

ReadFill == LET out == read1(This, EmptyArray)
            IN  Apply(out, "read1", 0, 0, out.array, -1)

\* readChunk and sliceChunk are methods of the stream object like the others.
ReadChunk == \E i \in 0 .. MaxLen + 1 :
                 Apply(readChunk(This, Num(i)), "readChunk", i, 0, <<>>, -1)

SliceChunk == \E i \in 0 .. MaxLen + 1 :
                  Apply(Outcome(This, sliceChunk(This, Num(i))),
                        "sliceChunk", i, 0, <<>>, -1)

Skip == \E n \in 0 .. MaxArg :
            Apply(skip(This, n), "skip", n, 0, <<>>, -1)

\* a2 records the number of r() calls the readLine made.
ReadLine == LET out == readLine(This)
            IN  Apply(out, "readLine", 0, out.reads, <<>>, -1)

ReadLines == \E n \in 0 .. MaxArg + 1 :
                 Apply(readLines(This, n), "readLines", n, 0, <<>>, -1)

Next == \/ Open \/ Seek \/ SeekLocal \/ Tell \/ Read \/ ReadRange \/ ReadFill
        \/ ReadChunk \/ SliceChunk \/ Skip \/ ReadLine \/ ReadLines

Spec == Init /\ [][Next]_vars

\* No load is ever in flight and the cache never holds a byte array.
NoLoadEverStarts == loads = <<>> /\ cache.tag # "array"

\* ================================================================ claims
\* The stream has been given a source.
Opened(s) == s.blob.tag = "blob"

\* chunkIndex * chunkSize + localPosition, the absolute position of a cursor.
Abs(s) == s.chunk.num * config.chunkSize + s.position.num

\* The bytes of src from absolute position a up to the next line feed or the
\* end of src.
RECURSIVE LineAt(_, _)
LineAt(src, a) ==
    IF a >= Len(src) \/ src[a + 1] = LF THEN <<>>
    ELSE <<src[a + 1]>> \o LineAt(src, a + 1)

\* The number of line feeds of src.
RECURSIVE CountLF(_)
CountLF(src) ==
    IF src = <<>> THEN 0
    ELSE (IF Head(src) = LF THEN 1 ELSE 0) + CountLF(Tail(src))

\* The first n complete (line-feed terminated) lines of src from position a.
RECURSIVE FirstLines(_, _, _)
FirstLines(src, a, n) ==
    IF n = 0 \/ CountLF(SubSeq(src, a + 1, Len(src))) = 0 THEN <<>>
    ELSE LET l == LineAt(src, a)
         IN  <<l>> \o FirstLines(src, a + Len(l) + 1, n - 1)

\* C1: the k-th read() of a run of reads that starts right after open
\* returns byte k-1 of the source, and the EOF sentinel once the source is
\* exhausted.
C1_SequentialReadsReproduceSource ==
    (call.op = "read" /\ call.reads >= 1) =>
        call.res = IF call.reads <= Len(file)
                   THEN Return(Num(file[call.reads]))
                   ELSE Return(Null)

\* C2: on an open stream, seek(o) with 0 <= o <= L returns and tell() is
\* then o.
C2_SeekThenTell ==
    (call.op = "seek" /\ Opened(call.pre)
        /\ call.a1 >= 0 /\ call.a1 <= Len(file)) =>
        /\ call.res.kind = "return"
        /\ tell(This) = Num(call.a1)

\* C3: on an open stream EOF holds exactly when the absolute position is at
\* or past the source length, and a read() made in such a state returns the
\* EOF sentinel.
C3_EOFIffAtOrPastLength ==
    /\ Opened(This) => (EOF(This) <=> Abs(This) >= Len(file))
    /\ (call.op = "read" /\ Opened(call.pre) /\ Abs(call.pre) >= Len(file))
           => call.res = Return(Null)

\* C4: whenever seek or read() has returned, the cache holds the bytes of
\* the chunk the chunk index names.
C4_CacheLoadedOnReturn ==
    (call.op \in {"seek", "read"} /\ Opened(call.pre)
        /\ call.res.kind = "return") =>
        /\ cache.tag = "array"
        /\ cache.bytes = sliceChunk(This, chunk).val.str

\* C5: read(array, offset, len) leaves every index outside
\* [offset, offset+len) as it was, and returns len when at least len bytes
\* remain before the end of the source.
C5_RangedFill ==
    (call.op = "read3" /\ Opened(call.pre)) =>
        /\ \A i \in 1 .. BufCap :
              (i - 1 < call.a1 \/ i - 1 >= call.a1 + call.a2)
                  => call.array[i] = Undefined
        /\ (Len(file) - Abs(call.pre) >= call.a2)
              => call.res = Return(Num(call.a2))

\* C6: skip(n) returns the distance the cursor advanced, at most n, and
\* with fewer than n bytes left it returns less than n and stops at EOF.
C6_SkipReturnsAdvance ==
    (call.op = "skip" /\ Opened(call.pre)) =>
        /\ call.res.kind = "return"
        /\ call.res.val = Num(Abs(This) - Abs(call.pre))
        /\ call.res.val.num <= call.a1
        /\ (Len(file) - Abs(call.pre) < call.a1)
              => (call.res.val.num < call.a1 /\ Abs(This) >= Len(file))

\* C7: readLine() returns the bytes from the cursor up to the next line feed
\* (or the end of the source), the line feed removed, and moves the cursor
\* past them.
C7_ReadLineReturnsLine ==
    (call.op = "readLine" /\ Opened(call.pre)) =>
        LET l == LineAt(file, Abs(call.pre))
        IN  /\ call.res = Return(Str(l))
            /\ Abs(This) = Min(Abs(call.pre) + Len(l) + 1, Len(file))

\* C8: readLines(n) returns the first n complete lines joined by a line
\* feed, and signals truncation exactly when fewer than n complete lines
\* remain; for "abc\ndef\n", readLines(2) and readLines(3) both give
\* "abc\ndef", the second with the signal.
C8_ReadLinesJoins ==
    (call.op = "readLines" /\ Opened(call.pre)) =>
        LET got == FirstLines(file, Abs(call.pre), call.a1)
        IN  /\ call.res.kind = "return"
            /\ call.res.val = Str(join(got))
            /\ call.res.warn <=> (Len(got) < call.a1)

\* C9: on an open stream, seek(o) with o < 0 or o > L throws the
\* invalid-offset error and leaves every field of the stream, the chunk
\* index, the local position, the cache and the loads in flight, as it was.
C9_InvalidSeekChangesNothing ==
    (call.op = "seek" /\ Opened(call.pre)
        /\ (call.a1 < 0 \/ call.a1 > Len(file))) =>
        /\ call.res = Throw(InvalidOffset)
        /\ This = call.pre

\* An invalid seek made with the cursor off the origin.
C9_Witness ==
    /\ call.op = "seek" /\ Opened(call.pre)
    /\ call.a1 > Len(file)
    /\ call.res = Throw(InvalidOffset)
    /\ chunk.num >= 1
    /\ position.num >= 1

\* C10: once open has set up the chunk table, it has ceil(L / C) entries and
\* entry i is the byte range [i*C, min((i+1)*C, L)) of the source.
C10_ChunkTablePartitionsSource ==
    Opened(This) =>
        /\ chunks.tag = "array"
        /\ Len(chunks.items) = Ceil(Len(file), config.chunkSize)
        /\ \A i \in 0 .. Len(chunks.items) - 1 :
              chunks.items[i + 1] =
                  BlobVal(i * config.chunkSize,
                          SubSeq(file, i * config.chunkSize + 1,
                                 Min((i + 1) * config.chunkSize, Len(file))))

\* C11: read(array) returns the number of bytes written, the smaller of the
\* array's capacity and the bytes left before the end of the source, and
\* has written exactly those bytes of the source to the front of the array.
C11_FillReturnsCount ==
    (call.op = "read1" /\ Opened(call.pre) /\ Abs(call.pre) <= Len(file)) =>
        LET n == Min(BufCap, Len(file) - Abs(call.pre))
        IN  /\ call.res = Return(Num(n))
            /\ \A i \in 1 .. n : call.array[i] = Num(file[Abs(call.pre) + i])

\* C12: after a seek(o) that returned, the chunk index is floor(o / C) and
\* the local position o mod C, except that for o = L with L a positive
\* multiple of C the cursor is on the last chunk at local position C; and
\* the seek started a load exactly when that target chunk was not the
\* current one.
C12_SeekCursor ==
    (call.op = "seek" /\ Opened(call.pre) /\ call.res.kind = "return") =>
        LET o      == call.a1
            C      == config.chunkSize
            atEnd  == o = Len(file) /\ o > 0 /\ o % C = 0
            target == IF atEnd THEN (o \div C) - 1 ELSE o \div C
        IN  /\ chunk = Num(target)
            /\ position = Num(IF atEnd THEN C ELSE o % C)
            /\ (loads # call.pre.loads) <=> (Num(target) # call.pre.chunk)

\* C13: a read() at or past the end of the source returns the EOF sentinel
\* and changes nothing; any other read() returns a byte and advances the
\* absolute position by exactly 1, going to local position 0 of the next
\* chunk first when the current chunk is exhausted.
C13_ReadAdvancesByOne ==
    (call.op = "read" /\ Opened(call.pre)) =>
        IF Abs(call.pre) >= Len(file)
        THEN call.res = Return(Null) /\ This = call.pre
        ELSE /\ call.res = Return(Num(file[Abs(call.pre) + 1]))
             /\ Abs(This) = Abs(call.pre) + 1
             /\ (call.pre.position = Num(config.chunkSize))
                   => (chunk = Num(call.pre.chunk.num + 1) /\ position = Num(1))

\* C14: seekLocal(o) with 0 <= o <= C sets the local position to o, returns
\* the absolute position chunkIndex * C + o that tell() is to report, and
\* changes nothing else; any other o throws the invalid-offset error and
\* changes nothing.
C14_SeekLocalFrame ==
    (call.op = "seekLocal" /\ Opened(call.pre)) =>
        IF call.a1 >= 0 /\ call.a1 <= config.chunkSize
        THEN /\ This = [call.pre EXCEPT !.position = Num(call.a1)]
             /\ call.res = Return(Num(Abs(This)))
        ELSE call.res = Throw(InvalidOffset) /\ This = call.pre

\* The part of C14 about the state alone, which the code satisfies: only the
\* local position changes, and nothing changes on an invalid offset.
SeekLocalChangesPositionOnly ==
    (call.op = "seekLocal") =>
        IF call.a1 >= 0 /\ call.a1 <= config.chunkSize
        THEN This = [call.pre EXCEPT !.position = Num(call.a1)]
        ELSE call.res = Throw(InvalidOffset) /\ This = call.pre

\* C15: readChunk(i) and sliceChunk(i) with i >= chunkCount throw the
\* chunk-out-of-range error and leave the stream as it was.
C15_ChunkIndexOutOfRange ==
    (call.op \in {"readChunk", "sliceChunk"} /\ Opened(call.pre)
        /\ call.a1 >= Ceil(Len(file), config.chunkSize)) =>
        /\ call.res = Throw(ChunkBeyond)
        /\ This = call.pre

\* C16: after readChunk(i), either the cache holds the bytes of chunk i and
\* the chunk index is i, or the chunk index, the local position and the
\* cache are all what they were before the call.
C16_LoadIsAtomic ==
    (call.op = "readChunk" /\ Opened(call.pre)) =>
        \/ /\ chunk = Num(call.a1)
           /\ cache.tag = "array"
           /\ cache.bytes = sliceChunk(This, chunk).val.str
        \/ /\ chunk = call.pre.chunk
           /\ position = call.pre.position
           /\ cache = call.pre.cache

C18_CursorAndCacheInRange ==
    Opened(This) =>
        LET C == config.chunkSize
            L == Len(file)
        IN  /\ position.num >= 0 /\ position.num <= C
            /\ (L > 0) => (chunk.num >= 0 /\ chunk.num < Ceil(L, C))
            /\ cache.tag = "array"
            /\ Len(cache.bytes) = Min((chunk.num + 1) * C, L) - Min(chunk.num * C, L)

\* The bytes left between a cursor and the end of the source.
Remaining(s) == IF Abs(s) >= Len(file) THEN 0 ELSE Len(file) - Abs(s)

\* C20: readLine() ends, from every state, and on an open stream after at
\* most (bytes remaining + 1) single-byte reads.
C20_ReadLineTerminates ==
    (call.op = "readLine") =>
        /\ call.res.kind # "running"
        /\ Opened(call.pre) => call.a2 <= Remaining(call.pre) + 1

\* readLine() was called with bytes left and no line feed among them.
C20_Witness ==
    /\ call.op = "readLine" /\ Opened(call.pre)
    /\ Abs(call.pre) < Len(file)
    /\ CountLF(SubSeq(file, Abs(call.pre) + 1, Len(file))) = 0
    /\ call.res.kind # "running"
    /\ call.a2 >= 1

=============================================================================
